---- MODULE Spec2Model ----
(***************************************************************************)
(* Forward-error-correction core of rustcrypto: the convolutional encoder  *)
(* (src/convolutional/encoder.rs), the turbo encoder and its interleaver   *)
(* (src/turbo/encoder.rs), the classical ciphers (src/crypto/cipher.rs)    *)
(* and the Viterbi decoder that main.rs calls (convolutional::viterbi).    *)
(* Bits are BOOLEAN (Rust bool), registers and masks are u32 values,       *)
(* strings are sequences of Unicode code points.                           *)
(***************************************************************************)
EXTENDS Integers, Sequences, FiniteSets, TLC

VARIABLES
    overflow_checks,  \* build profile: TRUE = debug (arithmetic overflow panics), FALSE = release (wraps)
    encoder,          \* the ConvolutionalEncoder object
    given,            \* the arguments ConvolutionalEncoder::new was called with
    result,           \* what the caller got from the last operation
    calls,            \* the last (at most two) encode calls of the stream begun by new()/reset()
    received,         \* the coded sequence handed to the Viterbi decoder
    flipped,          \* position of the channel error in received (0: none, -1: nothing sent yet)
    decoded,          \* what ViterbiDecoder::decode returned
    turbo,            \* the TurboEncoder object
    turbo_call,       \* the last TurboEncoder::encode call
    cipher,           \* the Cipher object
    cipher_call       \* the last encrypt and decrypt calls

vars == <<overflow_checks, encoder, given, result, calls, received, flipped,
          decoded, turbo, turbo_call, cipher, cipher_call>>

----------------------------------------------------------------------------
(* Bounds of the model *)

MaxK == 3
MaxPolys == 2
MaxLen == 5
MaxStream == 3
MaxMsg == 4
MaxTurboLen == 7
MaxKeyLen == 2
MaxMsgLen == 2

\* characters of keys: - 0 3 K k e-acute; of messages: ! Z a z e-acute
KeyChars == {45, 48, 51, 75, 107, 233}
MsgChars == {33, 90, 97, 122, 233}
Algorithms == {"caesar", "vigenere", "xor", "rot13"}

\* generator polynomials offered to the constructors (decimal-written octal):
\* 5 and 7 are odd, 12 has two digits and is even, 8 is no octal digit
PolyChoices == {5, 7, 8, 12}

RECURSIVE SeqsUpTo(_, _)
SeqsUpTo(S, n) ==
    IF n = 0 THEN {<<>>}
    ELSE LET shorter == SeqsUpTo(S, n - 1)
         IN  shorter \cup {Append(s, x) : s \in shorter, x \in S}

\* lists of up to MaxPolys distinct polynomials, in every order
PolyLists ==
    {polys \in SeqsUpTo(PolyChoices, MaxPolys) :
        \A i, j \in 1..Len(polys) : i # j => polys[i] # polys[j]}
Inputs == SeqsUpTo(BOOLEAN, MaxLen)
Messages == SeqsUpTo(BOOLEAN, MaxMsg)
TurboInputs == SeqsUpTo(BOOLEAN, MaxTurboLen)
Keys == SeqsUpTo(KeyChars, MaxKeyLen)
Texts == SeqsUpTo(MsgChars, MaxMsgLen)

----------------------------------------------------------------------------
(* u32 / u8 arithmetic.  Every u32 value the encoder holds is ANDed with a  *)
(* mask below 2^31, so the operators are written to keep intermediate      *)
(* values below 2^31 as well.                                              *)

RECURSIVE Pow2(_)
Pow2(n) == IF n = 0 THEN 1 ELSE 2 * Pow2(n - 1)

Bit30 == Pow2(30)

\* n one-bits: (1 << n) - 1 for n < 32
RECURSIVE Ones(_)
Ones(n) == IF n = 0 THEN 0 ELSE 2 * Ones(n - 1) + 1

RECURSIVE BitAnd(_, _)
BitAnd(a, b) ==
    IF a = 0 \/ b = 0 THEN 0
    ELSE (IF a % 2 = 1 /\ b % 2 = 1 THEN 1 ELSE 0) + 2 * BitAnd(a \div 2, b \div 2)

RECURSIVE BitOr(_, _)
BitOr(a, b) ==
    IF a = 0 THEN b
    ELSE IF b = 0 THEN a
    ELSE (IF a % 2 = 1 \/ b % 2 = 1 THEN 1 ELSE 0) + 2 * BitOr(a \div 2, b \div 2)

RECURSIVE BitXor(_, _)
BitXor(a, b) ==
    IF a = 0 THEN b
    ELSE IF b = 0 THEN a
    ELSE (IF a % 2 # b % 2 THEN 1 ELSE 0) + 2 * BitXor(a \div 2, b \div 2)

\* x << n on u32, for results below 2^31
Shl32(x, n) == x * Pow2(n)

\* (x << 1) | b on u32, without bit 31 of the result (every mask it is ANDed
\* with has bit 31 clear)
Shl1Or(x, b) == (x % Bit30) * 2 + b

----------------------------------------------------------------------------
(* ConvolutionalEncoder (src/convolutional/encoder.rs) *)

\* the closure of new(): one decimal digit per step, OR-ed in at a 3-bit offset
RECURSIVE binary_polynomial_loop(_, _, _)
binary_polynomial_loop(octal, shift, binary) ==
    IF octal > 0
    THEN binary_polynomial_loop(octal \div 10, shift + 3,
                                BitOr(binary, Shl32(octal % 10, shift)))
    ELSE binary

binary_polynomial(p) == binary_polynomial_loop(p, 0, 0)

binary_polynomials(polys) == [i \in 1..Len(polys) |-> binary_polynomial(polys[i])]

new(constraint_length_, polys) ==
    [constraint_length |-> constraint_length_,
     polynomials       |-> binary_polynomials(polys),
     rate_denominator  |-> Len(polys),
     state             |-> 0]

reset(enc) == [enc EXCEPT !.state = 0]

\* (1 << (constraint_length - 1)) - 1 overflows u32 arithmetic when the
\* subtraction goes below 0 or the shift count reaches 32
mask_overflows(K) == K = 0 \/ K - 1 >= 32

\* the value of register_mask; on overflow it is the wrapped value of a build
\* without overflow checks: 0 - 1 wraps to 2^32 - 1 and the shift count is
\* taken modulo 32
register_mask(K) ==
    LET count == IF K = 0 THEN 31 ELSE (K - 1) % 32
    IN  Ones(count)

shift_in_unmasked(state, bit, mask) == Shl1Or(state, IF bit THEN 1 ELSE 0)

\* self.state = ((self.state << 1) | bit) & register_mask
shift_in(state, bit, mask) ==
    BitAnd(Shl1Or(state, IF bit THEN 1 ELSE 0), mask)

parity_loop_or(temp, parity) == IF temp # 0 THEN 1 ELSE parity

\* the while loop folding temp to one parity bit
RECURSIVE parity_loop(_, _)
parity_loop(temp, parity) ==
    IF temp # 0 THEN parity_loop(temp \div 2, BitXor(parity, temp % 2)) ELSE parity

first_polynomial_only(state, polys) ==
    IF Len(polys) = 0 THEN <<>> ELSE <<parity_loop(BitAnd(state, polys[1]), 0) = 1>>

\* the inner for loop: one output bit per polynomial, in polynomial order
parity_bits(state, polys) ==
    [i \in 1..Len(polys) |-> parity_loop(BitAnd(state, polys[i]), 0) = 1]

\* the outer for loop of encode, from register `state` over `input`
RECURSIVE encode_loop(_, _, _, _, _)
encode_loop(state, input, polys, mask, output) ==
    IF input = <<>> THEN [state |-> state, output |-> output]
    ELSE LET next == shift_in(state, Head(input), mask)
         IN  encode_loop(next, Tail(input), polys, mask,
                         output \o parity_bits(next, polys))

encode_from_zero(enc, input) ==
    LET run == encode_loop(0, input, enc.polynomials,
                           register_mask(enc.constraint_length), <<>>)
    IN  [encoder |-> enc, output |-> run.output]

\* encode(&mut self, input): the encoder afterwards and the returned output
encode(enc, input) ==
    LET run == encode_loop(enc.state, input, enc.polynomials,
                           register_mask(enc.constraint_length), <<>>)
    IN  [encoder |-> [enc EXCEPT !.state = run.state], output |-> run.output]

\* encode panics before its loop in a build with overflow checks
encode_panics(enc) == overflow_checks /\ mask_overflows(enc.constraint_length)

----------------------------------------------------------------------------
(* The encoder object driven by its caller: reset() and encode() *)

\* no decode, turbo or cipher call has happened
Idle ==
    /\ received = <<>>
    /\ flipped = -1
    /\ decoded = [status |-> "none", bits |-> <<>>]
    /\ turbo = [encoder1 |-> new(3, <<>>), encoder2 |-> new(3, <<>>)]
    /\ turbo_call = [op |-> "none", input |-> <<>>, interleaved |-> <<>>, output |-> <<>>]
    /\ cipher = [algorithm |-> "", key |-> <<>>]
    /\ cipher_call = [op |-> "none", message |-> <<>>, encrypted |-> <<>>, decrypted |-> <<>>]

\* before the caller has constructed an encoder
NoEncoder ==
    /\ encoder = [constraint_length |-> 0, polynomials |-> <<>>,
                  rate_denominator |-> 0, state |-> 0]
    /\ given = [constraint_length |-> 0, polynomials |-> <<>>]
    /\ result = "none"
    /\ calls = <<>>

\* the program before any object is constructed, in either build profile
Init ==
    /\ overflow_checks \in BOOLEAN
    /\ NoEncoder
    /\ Idle

\* ConvolutionalEncoder::new(K, polys): it returns Self, never a failure
New(K, polys) ==
    /\ result = "none"
    /\ encoder' = new(K, polys)
    /\ given' = [constraint_length |-> K, polynomials |-> polys]
    /\ result' = "Encoder"
    /\ calls' = <<>>
    /\ UNCHANGED <<overflow_checks, received, flipped, decoded,
                   turbo, turbo_call, cipher, cipher_call>>

Reset ==
    /\ result \notin {"none", "panic"}
    /\ encoder' = reset(encoder)
    /\ result' = "reset"
    /\ calls' = <<>>
    /\ UNCHANGED <<overflow_checks, given, received, flipped, decoded,
                   turbo, turbo_call, cipher, cipher_call>>

\* the record kept of one encode call
Call(input, out, before, after) ==
    [input |-> input, output |-> out, before |-> before, after |-> after,
     preceded_by |-> IF calls = <<>> THEN result ELSE "encode",
     stream_len |-> Len(input) + IF calls = <<>> THEN 0 ELSE calls[Len(calls)].stream_len]

Encode(input) ==
    /\ result \notin {"none", "panic"}
    /\ calls # <<>> => calls[Len(calls)].stream_len + Len(input) <= MaxStream
    /\ IF encode_panics(encoder)
       THEN /\ result' = "panic"
            /\ UNCHANGED <<encoder, calls>>
       ELSE LET done == encode(encoder, input)
                call == Call(input, done.output, encoder.state, done.encoder.state)
            IN  /\ encoder' = done.encoder
                /\ result' = "Output"
                /\ calls' = IF calls = <<>> THEN <<call>>
                            ELSE <<calls[Len(calls)], call>>
    /\ UNCHANGED <<overflow_checks, given, received, flipped, decoded,
                   turbo, turbo_call, cipher, cipher_call>>

NextEncoder ==
    \/ \E K \in 0..MaxK, polys \in PolyLists : New(K, polys)
    \/ Reset
    \/ \E input \in Inputs : Encode(input)

SpecEncoder == Init /\ [][NextEncoder]_vars

----------------------------------------------------------------------------
(* Properties of the encoder *)

\* what one encode call returns and leaves in the register, computed from the
\* register it starts with
Reference(start, input) ==
    encode_loop(start, input, encoder.polynomials,
                register_mask(encoder.constraint_length), <<>>)

Fresh == new(given.constraint_length, given.polynomials)

TestInput == <<TRUE, FALSE, TRUE, TRUE, FALSE>>
TestExpected == <<TRUE, TRUE, TRUE, FALSE, FALSE, TRUE, TRUE, TRUE, TRUE, FALSE>>

\* C2: a freshly constructed encoder with constraint length 3 and
\* polynomials [7,5] encodes [1,0,1,1,0] to [1,1, 1,0, 0,1, 1,1, 1,0]
\* (the expectation of tests::test_encoder).
C2_ConcreteVector ==
    \A i \in 1..Len(calls) :
        ( /\ given.constraint_length = 3
          /\ given.polynomials = <<7, 5>>
          /\ calls[i].preceded_by = "Encoder"
          /\ calls[i].input = TestInput )
        => calls[i].output = TestExpected

\* C6: every encode call returns exactly len(input) * n bits, n the number of
\* polynomials, from whatever register earlier calls left; and with a
\* constraint length of at least 1 every call returns.
C6_RateInvariant ==
    /\ \A i \in 1..Len(calls) :
           Len(calls[i].output) = Len(calls[i].input) * Len(given.polynomials)
    /\ given.constraint_length >= 1 => result # "panic"

C6_Witness ==
    /\ Len(calls) = 2
    /\ Len(given.polynomials) = 2
    /\ calls[2].before # 0
    /\ Len(calls[2].input) = 2
    /\ Len(calls[2].output) = 4
    /\ calls[1].input = <<>>
    /\ calls[1].output = <<>>

\* some decimal digit of p is 8 or 9
RECURSIVE HasNonOctalDigit(_)
HasNonOctalDigit(p) ==
    p > 0 /\ (p % 10 > 7 \/ HasNonOctalDigit(p \div 10))

\* C7: constructing an encoder with a polynomial that has a digit 8 or 9
\* fails with InvalidPolynomial: no encoder exists and none emits output.
C7_PolynomialDigitValidation ==
    ( /\ result # "none"
      /\ \E i \in 1..Len(given.polynomials) : HasNonOctalDigit(given.polynomials[i]) )
    => (result = "InvalidPolynomial" /\ calls = <<>>)

\* C8: an empty polynomial list or a constraint length of 0 is reported as
\* InvalidConfiguration; the caller sees neither a panic nor an output.
C8_InvalidConfigurationFailsFast ==
    ( /\ result # "none"
      /\ given.constraint_length = 0 \/ given.polynomials = <<>> )
    => (result = "InvalidConfiguration" /\ calls = <<>>)

\* C10: two encode calls with no reset between them return, concatenated,
\* what one call on the concatenated input returns from the same register,
\* and leave the same register; the first call after reset() returns what a
\* freshly constructed encoder returns.
C10_StreamContinuity ==
    /\ Len(calls) = 2 =>
           LET a == calls[1]
               b == calls[2]
               one == Reference(a.before, a.input \o b.input)
           IN  /\ a.output \o b.output = one.output
               /\ b.after = one.state
               /\ result = "Output" => encoder.state = one.state
    /\ \A i \in 1..Len(calls) :
           calls[i].preceded_by = "reset" =>
               calls[i].output = Reference(Fresh.state, calls[i].input).output

C10_Witness ==
    /\ Len(calls) = 2
    /\ given.constraint_length = 3
    /\ given.polynomials = <<7, 5>>
    /\ calls[1].preceded_by = "encode"
    /\ calls[1].before # 0
    /\ calls[1].input # <<>>
    /\ calls[2].input # <<>>
    /\ calls[1].after # calls[1].before
    /\ encoder.state = calls[2].after

----------------------------------------------------------------------------
(* ViterbiDecoder (convolutional::viterbi, constructed and called by       *)
(* main.rs for Command::ConvDecode)                                        *)

ViterbiNew(K, polys) ==
    [constraint_length |-> K, polynomials |-> binary_polynomials(polys)]

\* the register after shifting `bit` into `s`
NextState(s, bit, K) == (2 * s + bit) % Pow2(K - 1)

RECURSIVE XorFold(_)
XorFold(x) == IF x = 0 THEN 0 ELSE ((x % 2) + XorFold(x \div 2)) % 2

\* the transition table: the n bits expected when `bit` enters state s
Expected(s, bit, K, polys) ==
    [i \in 1..Len(polys) |-> XorFold(BitAnd(NextState(s, bit, K), polys[i])) = 1]

Hamming(a, b) == Cardinality({i \in 1..Len(a) : a[i] # b[i]})

\* time step 0: only the zero state is reachable, with metric 0.  A trellis
\* column holds a node for every reachable state; unreachable states are
\* excluded.  A node holds its metric and every survivor path that some
\* choice among equal incoming metrics can record.
TrellisStart == {[state |-> 0, metric |-> 0, paths |-> {<<>>}]}

\* the transitions out of the reachable states, each with its path metric
Transitions(prev, group, K, polys) ==
    {[to    |-> NextState(x.state, bit, K),
      bit   |-> bit,
      paths |-> x.paths,
      cost  |-> x.metric + Hamming(Expected(x.state, bit, K, polys), group)] :
        x \in prev, bit \in {0, 1}}

\* add-compare-select for one received group
AddCompareSelect(prev, group, K, polys) ==
    LET all == Transitions(prev, group, K, polys)
    IN  {LET incoming == {c \in all : c.to = d}
             best == CHOOSE m \in {c.cost : c \in incoming} :
                         \A c \in incoming : m <= c.cost
         IN  [state  |-> d,
              metric |-> best,
              paths  |-> UNION {{Append(path, c.bit = 1) : path \in c.paths} :
                                c \in {x \in incoming : x.cost = best}}] :
         d \in {c.to : c \in all}}

RECURSIVE Trellis(_, _, _, _)
Trellis(nodes, rest, K, polys) ==
    IF rest = <<>> THEN nodes
    ELSE LET n == Len(polys)
         IN  Trellis(AddCompareSelect(nodes, SubSeq(rest, 1, n), K, polys),
                     SubSeq(rest, n + 1, Len(rest)), K, polys)

\* termination: the minimum final metric, ties to the lowest state index
BestFinal(nodes) ==
    CHOOSE x \in nodes :
        \A y \in nodes : \/ x.metric < y.metric
                         \/ x.metric = y.metric /\ x.state <= y.state

\* every result decode(coded) can return
decode(dec, coded) ==
    LET K == dec.constraint_length
        n == Len(dec.polynomials)
    IN  IF n = 0 \/ K = 0 THEN {[status |-> "InvalidConfiguration", bits |-> <<>>]}
        ELSE IF Len(coded) % n # 0 THEN {[status |-> "InvalidInputLength", bits |-> <<>>]}
        ELSE LET nodes == Trellis(TrellisStart, coded, K, dec.polynomials)
             IN  {[status |-> "Ok", bits |-> path] : path \in BestFinal(nodes).paths}

----------------------------------------------------------------------------
(* Encode with a fresh encoder, decode with the same parameters what a     *)
(* channel that flips at most one bit delivers                             *)

Codeword == calls[1].output

\* main.rs, Command::ConvDecode: a decoder constructed with the encoder's
\* parameters decodes what the channel delivers, the codeword with bit p
\* flipped (p = 0: no bit)
ConvDecode(p) ==
    /\ result = "Output"
    /\ flipped = -1
    /\ p <= Len(Codeword)
    /\ LET coded == [i \in 1..Len(Codeword) |->
                        IF i = p THEN ~Codeword[i] ELSE Codeword[i]]
       IN  /\ received' = coded
           /\ flipped' = p
           /\ \E d \in decode(ViterbiNew(given.constraint_length, given.polynomials),
                               coded) :
                  decoded' = d
    /\ UNCHANGED <<overflow_checks, encoder, given, result, calls,
                   turbo, turbo_call, cipher, cipher_call>>

\* the first encode call on the freshly constructed encoder
EncodeMessage(input) == calls = <<>> /\ Encode(input)

NextViterbi ==
    \/ \E K \in 2..MaxK, polys \in PolyLists : New(K, polys)
    \/ \E input \in Messages : EncodeMessage(input)
    \/ \E p \in 0..(MaxMsg * MaxPolys) : ConvDecode(p)

SpecViterbi == Init /\ [][NextViterbi]_vars

\* C1 as stated: without noise, for every constraint length >= 2 and every
\* non-empty list of octal-digit polynomials, decoding the codeword of B
\* returns B.
C1_RoundTripAnyPolynomials ==
    ( /\ decoded.status # "none"
      /\ flipped = 0
      /\ given.constraint_length >= 2
      /\ given.polynomials # <<>>
      /\ \A i \in 1..Len(given.polynomials) : ~HasNonOctalDigit(given.polynomials[i]) )
    => decoded = [status |-> "Ok", bits |-> calls[1].input]

\* C1 amended: ... and every polynomial list that holds an odd polynomial
\* (a tap on the current input bit), decoding the codeword of B returns B.
C1_RoundTrip ==
    ( /\ decoded.status # "none"
      /\ flipped = 0
      /\ given.constraint_length >= 2
      /\ \E i \in 1..Len(given.polynomials) : given.polynomials[i] % 2 = 1 )
    => decoded = [status |-> "Ok", bits |-> calls[1].input]

C1_Witness ==
    /\ decoded.status = "Ok"
    /\ flipped = 0
    /\ given.constraint_length = 3
    /\ given.polynomials = <<12, 7>>
    /\ Len(calls[1].input) = MaxMsg
    /\ decoded.bits = calls[1].input
    /\ \E i \in 1..MaxMsg : calls[1].input[i]

\* C4 as stated: with constraint length 3 and polynomials [7,5], decoding
\* the codeword of B with any one bit flipped returns B.
C4_SingleErrorAnyPosition ==
    ( /\ decoded.status # "none"
      /\ flipped >= 1
      /\ given.constraint_length = 3
      /\ given.polynomials = <<7, 5>> )
    => decoded = [status |-> "Ok", bits |-> calls[1].input]

\* C4 amended: ... with one bit flipped returns B, unless the flipped bit is
\* one of the two bits the last input bit produced and that input bit is 1.
C4_SingleErrorCorrection ==
    ( /\ decoded.status # "none"
      /\ flipped >= 1
      /\ flipped <= Len(received) - 2 \/ ~calls[1].input[Len(calls[1].input)]
      /\ given.constraint_length = 3
      /\ given.polynomials = <<7, 5>> )
    => decoded = [status |-> "Ok", bits |-> calls[1].input]

C4_Witness ==
    /\ decoded.status = "Ok"
    /\ flipped = 3
    /\ Len(received) = 2 * MaxMsg
    /\ given.constraint_length = 3
    /\ given.polynomials = <<7, 5>>
    /\ received # calls[1].output
    /\ decoded.bits = calls[1].input
    /\ calls[1].input[1] /\ calls[1].input[2]

----------------------------------------------------------------------------
(* TurboEncoder (src/turbo/encoder.rs) *)

TurboNew(polys) == [encoder1 |-> new(3, polys), encoder2 |-> new(3, polys)]

new_pos(i, len) == (i * 7 + 5) % len

\* the for loop of interleave: position new_pos(i) of the output is assigned
\* input bit i, for i = 0 .. len-1 in this order (indices here are 0-based,
\* sequences 1-based)
RECURSIVE interleave_loop(_, _, _)
interleave_loop(i, input, interleaved) ==
    IF i >= Len(input) THEN interleaved
    ELSE interleave_loop(i + 1, input,
             [interleaved EXCEPT ![new_pos(i, Len(input)) + 1] = input[i + 1]])

interleave(input) ==
    interleave_loop(0, input, [k \in 1..Len(input) |-> FALSE])

\* TurboEncoder::encode: the object afterwards, the interleaved input and
\* the returned output
turbo_encode(t, input) ==
    LET done1 == encode(reset(t.encoder1), input)
        interleaved == interleave(input)
        done2 == encode(reset(t.encoder2), interleaved)
    IN  [turbo       |-> [encoder1 |-> done1.encoder, encoder2 |-> done2.encoder],
         interleaved |-> interleaved,
         output      |-> input \o done1.output \o done2.output]

TurboConstruct(polys) ==
    /\ turbo_call.op = "none"
    /\ turbo' = TurboNew(polys)
    /\ turbo_call' = [turbo_call EXCEPT !.op = "new"]
    /\ UNCHANGED <<overflow_checks, encoder, given, result, calls, received, flipped,
                   decoded, cipher, cipher_call>>

TurboEncode(input) ==
    /\ turbo_call.op # "none"
    /\ turbo_call.op = "encode" => Len(input) <= MaxStream
    /\ LET done == turbo_encode(turbo, input)
       IN  /\ turbo' = done.turbo
           /\ turbo_call' = [op |-> "encode", input |-> input,
                             interleaved |-> done.interleaved, output |-> done.output]
    /\ UNCHANGED <<overflow_checks, encoder, given, result, calls, received, flipped,
                   decoded, cipher, cipher_call>>

NextTurbo ==
    \/ \E polys \in PolyLists : TurboConstruct(polys)
    \/ \E input \in TurboInputs : TurboEncode(input)

SpecTurbo == Init /\ [][NextTurbo]_vars

Ones1(bits) == Cardinality({i \in 1..Len(bits) : bits[i]})

\* C3: for every length len > 0 the interleaver is a bijection of the
\* positions: every input bit is found at its position (i*7+5) mod len of
\* the interleaved output, none is overwritten and none is lost.
C3_InterleaverBijection ==
    (turbo_call.op = "encode" /\ turbo_call.input # <<>>) =>
        LET len == Len(turbo_call.input)
        IN  /\ \A i \in 0..(len - 1) :
                   turbo_call.interleaved[new_pos(i, len) + 1] = turbo_call.input[i + 1]
            /\ Ones1(turbo_call.interleaved) = Ones1(turbo_call.input)

\* C5: for every polynomial list and every B, TurboEncoder::encode(B) starts
\* with the bits of B and, when B is not empty, is strictly longer than B.
C5_TurboSystematicPrefix ==
    turbo_call.op = "encode" =>
        /\ turbo_call.input # <<>> => Len(turbo_call.output) > Len(turbo_call.input)
        /\ Len(turbo_call.output) >= Len(turbo_call.input)
        /\ SubSeq(turbo_call.output, 1, Len(turbo_call.input)) = turbo_call.input

----------------------------------------------------------------------------
(* Cipher (src/crypto/cipher.rs).  A String is its sequence of chars (code *)
(* points); bytes() and as_bytes() are its UTF-8 encoding.                 *)

is_ascii_lowercase(c) == c >= 97 /\ c <= 122
is_ascii_uppercase(c) == c >= 65 /\ c <= 90
is_ascii_alphabetic(c) == is_ascii_lowercase(c) \/ is_ascii_uppercase(c)
is_ascii_digit(c) == c >= 48 /\ c <= 57

\* UTF-8 of one char below U+0800
utf8(c) == IF c < 128 THEN <<c>> ELSE <<192 + (c \div 64), 128 + (c % 64)>>

RECURSIVE bytes(_)
bytes(str) == IF str = <<>> THEN <<>> ELSE utf8(Head(str)) \o bytes(Tail(str))

\* char::to_lowercase for chars below U+0100
to_lowercase_char(c) ==
    IF is_ascii_uppercase(c) \/ (c >= 192 /\ c <= 222 /\ c # 215) THEN c + 32 ELSE c

to_lowercase(str) == [i \in 1..Len(str) |-> to_lowercase_char(str[i])]

RECURSIVE digits_value(_, _)
digits_value(str, acc) ==
    IF str = <<>> THEN acc ELSE digits_value(Tail(str), 10 * acc + (Head(str) - 48))

\* str::parse::<i32>: an optional sign, then one or more ASCII digits (the
\* keys here are too short to overflow an i32)
parse_i32(str) ==
    LET signed == str # <<>> /\ Head(str) \in {43, 45}
        digits == IF signed THEN Tail(str) ELSE str
    IN  IF digits = <<>> \/ \E i \in 1..Len(digits) : ~is_ascii_digit(digits[i])
        THEN [ok |-> FALSE, value |-> 0]
        ELSE [ok |-> TRUE,
              value |-> IF signed /\ Head(str) = 45 THEN 0 - digits_value(digits, 0)
                        ELSE digits_value(digits, 0)]

\* a % b of Rust on i32: the sign of the dividend
rem(a, b) == IF a >= 0 THEN a % b ELSE 0 - ((0 - a) % b)

\* x as u8, for an i32 x
as_u8(x) == x % 256

\* the two `let shift` lines of caesar_cipher
caesar_shift(key, encrypting) ==
    LET parsed == parse_i32(key)
        shift == rem(IF parsed.ok THEN parsed.value ELSE 3, 26)
    IN  as_u8(IF encrypting THEN shift ELSE 26 - shift)

\* c as u8 - base + shift goes beyond u8 for some char of the message
caesar_overflows(message, shift) ==
    \E i \in 1..Len(message) :
        /\ is_ascii_alphabetic(message[i])
        /\ message[i] - (IF is_ascii_lowercase(message[i]) THEN 97 ELSE 65) + shift > 255

caesar_char(c, shift) ==
    IF is_ascii_alphabetic(c)
    THEN LET base == IF is_ascii_lowercase(c) THEN 97 ELSE 65
         IN  (((c - base + shift) % 256) % 26) + base
    ELSE c

caesar_cipher(key, message, encrypting) ==
    LET shift == caesar_shift(key, encrypting)
    IN  IF overflow_checks /\ caesar_overflows(message, shift)
        THEN [status |-> "panic", text |-> <<>>]
        ELSE [status |-> "Ok",
              text |-> [i \in 1..Len(message) |-> caesar_char(message[i], shift)]]

vigenere_key_bytes(key) == SelectSeq(bytes(to_lowercase(key)), is_ascii_alphabetic)

RECURSIVE vigenere_loop(_, _, _, _, _)
vigenere_loop(message, key_bytes, key_idx, encrypting, out) ==
    IF message = <<>> THEN out
    ELSE LET c == Head(message)
         IN  IF is_ascii_alphabetic(c)
             THEN LET base == IF is_ascii_lowercase(c) THEN 97 ELSE 65
                      k == key_bytes[(key_idx % Len(key_bytes)) + 1] - 97
                      offset == IF encrypting THEN ((c - base + k) % 26) + base
                                ELSE ((c - base + 26 - k) % 26) + base
                  IN  vigenere_loop(Tail(message), key_bytes, key_idx + 1, encrypting,
                                    Append(out, offset))
             ELSE vigenere_loop(Tail(message), key_bytes, key_idx, encrypting,
                                Append(out, c))

vigenere_cipher(key, message, encrypting) ==
    LET key_bytes == vigenere_key_bytes(key)
    IN  [status |-> "Ok",
         text |-> IF key_bytes = <<>> THEN message
                  ELSE vigenere_loop(message, key_bytes, 0, encrypting, <<>>)]

\* every message byte XOR the key byte at its index, each result byte as a char
xor_cipher(key, message) ==
    LET key_bytes == bytes(key)
        b == bytes(message)
    IN  [status |-> "Ok",
         text |-> IF key_bytes = <<>> THEN message
                  ELSE [i \in 1..Len(b) |->
                           BitXor(b[i], key_bytes[((i - 1) % Len(key_bytes)) + 1])]]

encrypt(c, message) ==
    CASE c.algorithm = "caesar"   -> caesar_cipher(c.key, message, TRUE)
      [] c.algorithm = "vigenere" -> vigenere_cipher(c.key, message, TRUE)
      [] c.algorithm = "xor"      -> xor_cipher(c.key, message)
      [] OTHER                    -> [status |-> "panic", text |-> <<>>]

decrypt(c, message) ==
    CASE c.algorithm = "caesar"   -> caesar_cipher(c.key, message, FALSE)
      [] c.algorithm = "vigenere" -> vigenere_cipher(c.key, message, FALSE)
      [] c.algorithm = "xor"      -> xor_cipher(c.key, message)
      [] OTHER                    -> [status |-> "panic", text |-> <<>>]

CipherNew(algorithm, key) ==
    /\ cipher_call.op = "none"
    /\ cipher' = [algorithm |-> algorithm, key |-> key]
    /\ cipher_call' = [cipher_call EXCEPT !.op = "new"]
    /\ UNCHANGED <<overflow_checks, encoder, given, result, calls, received, flipped,
                   decoded, turbo, turbo_call>>

Encrypt(message) ==
    /\ cipher_call.op = "new"
    /\ LET done == encrypt(cipher, message)
       IN  cipher_call' = [op |-> IF done.status = "Ok" THEN "encrypt" ELSE "panic",
                           message |-> message, encrypted |-> done.text,
                           decrypted |-> <<>>]
    /\ UNCHANGED <<overflow_checks, encoder, given, result, calls, received, flipped,
                   decoded, turbo, turbo_call, cipher>>

\* decrypt of what encrypt returned, with the same Cipher
Decrypt ==
    /\ cipher_call.op = "encrypt"
    /\ LET done == decrypt(cipher, cipher_call.encrypted)
       IN  cipher_call' = [cipher_call EXCEPT
                              !.op = IF done.status = "Ok" THEN "decrypt" ELSE "panic",
                              !.decrypted = done.text]
    /\ UNCHANGED <<overflow_checks, encoder, given, result, calls, received, flipped,
                   decoded, turbo, turbo_call, cipher>>

NextCipher ==
    \/ \E algorithm \in Algorithms, key \in Keys : CipherNew(algorithm, key)
    \/ \E message \in Texts : Encrypt(message)
    \/ Decrypt

SpecCipher == Init /\ [][NextCipher]_vars

\* C9: for caesar, vigenere and xor, every key and every message m,
\* decrypt(encrypt(m)) = m, and neither call overflows or panics.
C9_CipherRoundTrip ==
    cipher.algorithm \in {"caesar", "vigenere", "xor"} =>
        /\ cipher_call.op # "panic"
        /\ cipher_call.op = "decrypt" => cipher_call.decrypted = cipher_call.message

====
